---- MODULE Spec2Model ----
(***************************************************************************)
(* B-tree of minimum degree t (BTree<Key, T, Compare> with Key = T = int    *)
(* and Compare = std::less<int>).  Nodes live in a heap indexed by node     *)
(* ids; every node carries its fixed-size arrays key[0..2t-2] and           *)
(* c[0..2t-1], the key count n and the leaf flag.  One action per public    *)
(* call (insert, erase); the private helpers are operators that take and    *)
(* return the machine record m = [h, root, fault, cases, ret, dangled].     *)
(***************************************************************************)
EXTENDS Integers, Sequences, FiniteSets, TLC

\* ---- bounds of the exploration ----
MinT     == 2     \* the minimum degree satisfies t >= 2
MaxT     == 3
MaxKey   == 5     \* keys 1..MaxKey for t = MinT, one more per further degree
MaxNodes == 12    \* node ids the allocator can hand out
RunKeys  == 10    \* the ascending run inserts 1..RunKeys in this order
RunErases == 3    \* and then erases at most this many stored keys
MaxNews  == 9     \* an insert whose allocator fails has had fewer than this many successes
MaxAgains == 2     \* insert calls of one run with a key stored already
NewsPerNode == 3  \* allocnode: new Node(), new pair_t[2 * t - 1], new Node*[2 * t]

\* main(): BTree<int, int> t(3), its insert calls (the values are 1, 2, ...)
\* and its erase calls
MainT       == 3
MainInserts == <<1, 3, 7, 10, 11, 13, 14, 15, 18, 16, 19, 24, 25, 26, 21, 4, 5, 20, 22,
                 2, 17, 12, 6>>
MainErases  == <<6, 13, 7, 4, 2, 16>>

NIL   == 0        \* nullptr
UNDEF == 0 - 1    \* an indeterminate pointer (slot of new Node*[2t] never written)
KeysFor(tt) == 1..(MaxKey + tt - MinT)
ValueOf(k)  == k + MaxKey + MaxT      \* the value stored with key k, no key itself

VARIABLES
    t,        \* BTree::t, the minimum degree
    heap,     \* node id -> Node (n, key, c, leaf) plus the allocation state
    root,     \* BTree::root
    fault,    \* "none", or the way the last call left defined behaviour
    phase,    \* the caller: "any" order of calls, the ascending run in "fill" /
              \* "drain", or "main"
    erased,   \* 0 until the first erase call; the runs count their erase calls
    entries,  \* history: key -> value of every entry inserted and not erased
    last      \* history: the last public call and the deletion cases it took

vars == <<t, heap, root, fault, phase, erased, entries, last>>

\* ---- comparison predicate ----
cmp(l, r) == l < r
eq(l, r)  == ~(cmp(l, r) \/ cmp(r, l))

\* ---- nodes ----
KeyIdx(tt)   == 0..(2 * tt - 2)
ChildIdx(tt) == 0..(2 * tt - 1)

FreeNode == [live |-> FALSE, n |-> 0, key |-> <<>>, c |-> <<>>, leaf |-> FALSE]

Min(S) == CHOOSE a \in S : \A b \in S : a <= b
Max(S) == CHOOSE a \in S : \A b \in S : a >= b

\* why a pointer cannot be dereferenced ("none" when it can)
Bad(h, x) ==
    IF x = NIL THEN "null_deref"
    ELSE IF x \notin DOMAIN h THEN "wild_pointer"
    ELSE IF ~h[x].live THEN "use_after_free"
    ELSE "none"

Fail(m, f) == [m EXCEPT !.fault = f]

\* a call on a child node made from within a call on its parent: m.depth counts
\* the calls that are nested at this point, m.deep is the most there have been
Down(m) == [m EXCEPT !.depth = @ + 1, !.deep = Max({@, m.depth + 1})]

\* c nested calls that have returned (rightmost or leftmost under pred or succ)
Probe(m, c) == [m EXCEPT !.deep = Max({@, m.depth + c})]

\* Node*x = new Node(); ... x->key = new pair_t[2 * t - 1]; x->c = new Node*[2 * t];
\* m.news is the number of new-expressions that still succeed; one that fails
\* throws std::bad_alloc, and a Node whose arrays could not be had stays allocated.
allocnode(m) ==
    LET free == {x \in DOMAIN m.h : ~m.h[x].live} IN
    IF m.fault # "none" THEN m
    ELSE IF free = {} \/ m.news = 0 THEN Fail(m, "bad_alloc")
    ELSE LET x  == Min(free)
             m1 == [m EXCEPT !.ret = x,
                             !.news = Max({@ - NewsPerNode, 0}),
                             !.h[x] = [live |-> TRUE, n |-> 0,
                                       key  |-> [j \in KeyIdx(t) |-> <<0, 0>>],
                                       c    |-> [j \in ChildIdx(t) |-> UNDEF],
                                       leaf |-> FALSE]]
         IN IF m.news < NewsPerNode THEN Fail(m1, "bad_alloc") ELSE m1

freenode(m, x) ==
    IF m.fault # "none" THEN m
    ELSE IF Bad(m.h, x) # "none" THEN Fail(m, Bad(m.h, x))
    ELSE [m EXCEPT !.h[x] = FreeNode]

\* create without x->leaf = true
create_internal(m) ==
    LET m1 == allocnode(m) IN
    IF m1.fault # "none" THEN m1
    ELSE [m1 EXCEPT !.h[m1.ret].n = 0, !.root = m1.ret]

\* void create(): x = allocnode(); x->leaf = true; x->n = 0; root = x;
create(m) ==
    LET m1 == allocnode(m) IN
    IF m1.fault # "none" THEN m1
    ELSE [m1 EXCEPT !.h[m1.ret].leaf = TRUE, !.h[m1.ret].n = 0, !.root = m1.ret]

\* ---- search ----
\* the same scan started at slot 1
ScanFromOne(nd, k) ==
    LET stop == {j \in 1..(nd.n - 1) : ~cmp(nd.key[j][1], k)} IN
    IF stop = {} THEN nd.n ELSE Min(stop)

\* while (i < x->n && cmp(x->key[i], k)) i = i + 1;
Scan(nd, k) ==
    LET stop == {j \in 0..(nd.n - 1) : ~cmp(nd.key[j][1], k)} IN
    IF stop = {} THEN nd.n ELSE Min(stop)

RECURSIVE find(_, _, _)
find(h, x, k) ==
    IF Bad(h, x) # "none" THEN [node |-> NIL, slot |-> 0, fault |-> Bad(h, x)]
    ELSE LET nd == h[x]
             i  == Scan(nd, k)
         IN IF i < nd.n /\ eq(nd.key[i][1], k)
            THEN [node |-> x, slot |-> i, fault |-> "none"]
            ELSE IF nd.leaf THEN [node |-> NIL, slot |-> 0, fault |-> "none"]
            ELSE find(h, nd.c[i], k)

\* the number of calls find(x, k) nests below itself
RECURSIVE find_depth(_, _, _)
find_depth(h, x, k) ==
    IF Bad(h, x) # "none" THEN 0
    ELSE LET nd == h[x]
             i  == Scan(nd, k)
         IN IF (i < nd.n /\ eq(nd.key[i][1], k)) \/ nd.leaf THEN 0
            ELSE 1 + find_depth(h, nd.c[i], k)

\* ---- insertion ----
\* y->n = t - 1 ahead of the allocation of z
split_child_cut_first(m, x, i) ==
    LET m1 == allocnode(m) IN
    IF m1.fault # "none" THEN [m1 EXCEPT !.h[m.h[x].c[i]].n = t - 1]
    ELSE
    LET z  == m1.ret
        y  == m1.h[x].c[i]
    IN
    IF Bad(m1.h, y) # "none" THEN Fail(m1, Bad(m1.h, y))
    ELSE IF m1.h[x].n + 1 > 2 * t - 1 THEN Fail(m1, "out_of_bounds")
    ELSE
    LET yn == m1.h[y]
        xn == m1.h[x]
        zn == [m1.h[z] EXCEPT
                 !.leaf = yn.leaf,
                 !.n    = t - 1,
                 !.key  = [j \in KeyIdx(t) |->
                             IF j < t - 1 THEN yn.key[j + t] ELSE @[j]],
                 !.c    = [j \in ChildIdx(t) |->
                             IF ~yn.leaf /\ j < t THEN yn.c[j + t] ELSE @[j]]]
        xc == [j \in ChildIdx(t) |->
                 IF j = i + 1 THEN z
                 ELSE IF j > i + 1 /\ j <= xn.n + 1 THEN xn.c[j - 1]
                 ELSE xn.c[j]]
        xk == [j \in KeyIdx(t) |->
                 IF j = i THEN yn.key[t - 1]
                 ELSE IF j > i /\ j <= xn.n THEN xn.key[j - 1]
                 ELSE xn.key[j]]
    IN [m1 EXCEPT !.h = [@ EXCEPT ![z] = zn,
                                  ![y] = [yn EXCEPT !.n = t - 1],
                                  ![x] = [xn EXCEPT !.c = xc, !.key = xk, !.n = xn.n + 1]]]

\* split_child promoting y->key[t] instead of the median y->key[t-1]
split_child_next_median(m, x, i) ==
    LET m1 == allocnode(m) IN
    IF m1.fault # "none" THEN m1
    ELSE
    LET z  == m1.ret
        y  == m1.h[x].c[i]
    IN
    IF Bad(m1.h, y) # "none" THEN Fail(m1, Bad(m1.h, y))
    ELSE IF m1.h[x].n + 1 > 2 * t - 1 THEN Fail(m1, "out_of_bounds")
    ELSE
    LET yn == m1.h[y]
        xn == m1.h[x]
        zn == [m1.h[z] EXCEPT
                 !.leaf = yn.leaf,
                 !.n    = t - 1,
                 !.key  = [j \in KeyIdx(t) |->
                             IF j < t - 1 THEN yn.key[j + t] ELSE @[j]],
                 !.c    = [j \in ChildIdx(t) |->
                             IF ~yn.leaf /\ j < t THEN yn.c[j + t] ELSE @[j]]]
        xc == [j \in ChildIdx(t) |->
                 IF j = i + 1 THEN z
                 ELSE IF j > i + 1 /\ j <= xn.n + 1 THEN xn.c[j - 1]
                 ELSE xn.c[j]]
        xk == [j \in KeyIdx(t) |->
                 IF j = i THEN yn.key[t]
                 ELSE IF j > i /\ j <= xn.n THEN xn.key[j - 1]
                 ELSE xn.key[j]]
    IN [m1 EXCEPT !.h = [@ EXCEPT ![z] = zn,
                                  ![y] = [yn EXCEPT !.n = t - 1],
                                  ![x] = [xn EXCEPT !.c = xc, !.key = xk, !.n = xn.n + 1]]]

split_child(m, x, i) ==
    LET m1 == allocnode(m) IN
    IF m1.fault # "none" THEN m1
    ELSE
    LET z  == m1.ret
        y  == m1.h[x].c[i]
    IN
    IF Bad(m1.h, y) # "none" THEN Fail(m1, Bad(m1.h, y))
    ELSE IF m1.h[x].n + 1 > 2 * t - 1 THEN Fail(m1, "out_of_bounds")
    ELSE
    LET yn == m1.h[y]
        xn == m1.h[x]
        zn == [m1.h[z] EXCEPT
                 !.leaf = yn.leaf,
                 !.n    = t - 1,
                 !.key  = [j \in KeyIdx(t) |->
                             IF j < t - 1 THEN yn.key[j + t] ELSE @[j]],
                 !.c    = [j \in ChildIdx(t) |->
                             IF ~yn.leaf /\ j < t THEN yn.c[j + t] ELSE @[j]]]
        xc == [j \in ChildIdx(t) |->
                 IF j = i + 1 THEN z
                 ELSE IF j > i + 1 /\ j <= xn.n + 1 THEN xn.c[j - 1]
                 ELSE xn.c[j]]
        xk == [j \in KeyIdx(t) |->
                 IF j = i THEN yn.key[t - 1]
                 ELSE IF j > i /\ j <= xn.n THEN xn.key[j - 1]
                 ELSE xn.key[j]]
    IN [m1 EXCEPT !.h = [@ EXCEPT ![z] = zn,
                                  ![y] = [yn EXCEPT !.n = t - 1],
                                  ![x] = [xn EXCEPT !.c = xc, !.key = xk, !.n = xn.n + 1]]]

\* the same scan started one slot too low, at x->n - 2
ScanDownFromBelow(nd, k) ==
    LET stop == {j \in 0..(nd.n - 2) : ~cmp(k, nd.key[j][1])} IN
    IF stop = {} THEN 0 - 1 ELSE Max(stop)

\* i after: while (i >= 0 && cmp(k, x->key[i])) i = i - 1;   started at x->n - 1
ScanDown(nd, k) ==
    LET stop == {j \in 0..(nd.n - 1) : ~cmp(k, nd.key[j][1])} IN
    IF stop = {} THEN 0 - 1 ELSE Max(stop)

\* m.full: insert_nonfull has been called on a node of 2t-1 keys; m.skew: after
\* split_child(x, i) it has been called on x.c[j] with j = i + 1 when the
\* promoted key x.key[i] is not less than k, or with j = i when it is
Onto(m, x, i, j, k) ==
    [Down(m) EXCEPT !.skew = @ \/ ((j = i + 1) # cmp(m.h[x].key[i][1], k))
                               \/ j \notin {i, i + 1}]

RECURSIVE insert_nonfull(_, _, _)
insert_nonfull(m0, x, k) ==
    IF m0.fault # "none" THEN m0
    ELSE IF Bad(m0.h, x) # "none" THEN Fail(m0, Bad(m0.h, x))
    ELSE
    LET m  == [m0 EXCEPT !.full = @ \/ (m0.h[x].n = 2 * t - 1)]
        xn == m.h[x]
        i0 == ScanDown(xn, k[1])
    IN
    IF xn.leaf THEN
        IF xn.n > 2 * t - 2 THEN Fail(m, "out_of_bounds")
        ELSE [m EXCEPT !.h[x].key = [j \in KeyIdx(t) |->
                                       IF j = i0 + 1 THEN k
                                       ELSE IF j > i0 + 1 /\ j <= xn.n THEN xn.key[j - 1]
                                       ELSE xn.key[j]],
                       !.h[x].n = xn.n + 1]
    ELSE
        LET i == i0 + 1 IN
        IF Bad(m.h, xn.c[i]) # "none" THEN Fail(m, Bad(m.h, xn.c[i]))
        ELSE IF m.h[xn.c[i]].n = 2 * t - 1 THEN
            LET m1 == split_child(m, x, i) IN
            IF m1.fault # "none" THEN m1
            ELSE LET i2 == IF cmp(m1.h[x].key[i][1], k[1]) THEN i + 1 ELSE i
                 IN insert_nonfull(Onto(m1, x, i, i2, k[1]), m1.h[x].c[i2], k)
        ELSE insert_nonfull(Down(m), xn.c[i], k)

\* insert that puts a new root over the root whether it is full or not
insert_raising(m, k) ==
    LET m1 == allocnode(m) IN
    IF m1.fault # "none" THEN m1
    ELSE LET s == m1.ret IN
         insert_nonfull(split_child([m1 EXCEPT !.root = s,
                                                !.h[s].leaf = FALSE,
                                                !.h[s].n = 0,
                                                !.h[s].c[0] = m.root], s, 0), s, k)

\* insert without the split of a full root
insert_unsplit(m, k) == insert_nonfull(m, m.root, k)

\* insert that turns down a key that is stored already
insert_once(m, k) ==
    IF find(m.h, m.root, k[1]).node # NIL THEN m
    ELSE IF m.h[m.root].n = 2 * t - 1 THEN insert_raising(m, k)
    ELSE insert_unsplit(m, k)

insert(m, k) ==
    LET r == m.root IN
    IF m.h[r].n = 2 * t - 1 THEN
        LET m1 == allocnode(m) IN
        IF m1.fault # "none" THEN m1
        ELSE
        LET s  == m1.ret
            m2 == [m1 EXCEPT !.root = s,
                             !.h[s].leaf = FALSE,
                             !.h[s].n = 0,
                             !.h[s].c[0] = r]
        IN insert_nonfull(split_child(m2, s, 0), s, k)
    ELSE insert_nonfull(m, r, k)

\* ---- traversal ----
\* the keys dbg_traverse prints, in order (a slot that cannot be followed prints UNDEF)
RECURSIVE dbg_traverse(_, _)
dbg_traverse(h, x) ==
    IF Bad(h, x) # "none" THEN <<UNDEF>>
    ELSE
    LET nd == h[x]
        RECURSIVE walk(_)
        walk(i) ==
            IF i < nd.n
            THEN (IF nd.leaf THEN <<>> ELSE dbg_traverse(h, nd.c[i]))
                 \o <<nd.key[i][1]>> \o walk(i + 1)
            ELSE (IF nd.leaf THEN <<>> ELSE dbg_traverse(h, nd.c[i]))
    IN walk(0)

\* ---- deletion ----
\* The key parameter of erase(Node*, const pair_t&) is a reference: either to a
\* caller's local copy (ref = FALSE) or to the slot key[slot] of node (ref = TRUE).
Val(k)            == [ref |-> FALSE, val |-> k, node |-> NIL, slot |-> 0]
Ref(x, i, k)      == [ref |-> TRUE, val |-> k, node |-> x, slot |-> i]

\* The value a read through the reference yields now.  A reference into a freed
\* node dangles: the read yields g, the old contents or whatever the allocator
\* left there.
Dangles(h, kr) == kr.ref /\ ~h[kr.node].live

Deref(h, kr, g) ==
    IF ~kr.ref THEN kr.val
    ELSE IF Dangles(h, kr) THEN g
    ELSE h[kr.node].key[kr.slot][1]

\* m.dangled: a call has read its key parameter through a dangling reference;
\* m.strayed: a call has read, as its key parameter, another key than the one
\* the reference was taken to (kr.val)
\* m.thin: erase has been called on a node other than the root that held
\* fewer than t keys; m.astray: erase has been called for key k on a child
\* c[j] of x with k outside key[j-1]..key[j]
Into(m, x, j, k) ==
    [Down(m) EXCEPT !.astray = @ \/ j \notin ChildIdx(t)
                                 \/ (j > 0 /\ cmp(k, m.h[x].key[j - 1][1]))
                                 \/ (j < m.h[x].n /\ cmp(m.h[x].key[j][1], k))]

Case(m, name) == [m EXCEPT !.cases = @ \cup {name}]

RECURSIVE leftmost(_, _)
leftmost(h, x) ==
    IF Bad(h, x) # "none" THEN [val |-> <<0, 0>>, fault |-> Bad(h, x), calls |-> 1]
    ELSE IF h[x].leaf THEN [val |-> h[x].key[0], fault |-> "none", calls |-> 1]
    ELSE [leftmost(h, h[x].c[0]) EXCEPT !.calls = @ + 1]

RECURSIVE rightmost(_, _)
rightmost(h, x) ==
    IF Bad(h, x) # "none" THEN [val |-> <<0, 0>>, fault |-> Bad(h, x), calls |-> 1]
    ELSE IF h[x].leaf
         THEN IF h[x].n - 1 \in KeyIdx(t)
              THEN [val |-> h[x].key[h[x].n - 1], fault |-> "none", calls |-> 1]
              ELSE [val |-> <<0, 0>>, fault |-> "out_of_bounds", calls |-> 1]
    ELSE [rightmost(h, h[x].c[h[x].n]) EXCEPT !.calls = @ + 1]

\* pred taking the first key below y instead of the last
pred_first(h, x, i) == leftmost(h, h[x].c[i])

pred(h, x, i) == rightmost(h, h[x].c[i])

succ(h, x, i) == leftmost(h, h[x].c[i + 1])

erase_key(m, x, i) ==
    IF m.fault # "none" THEN m
    ELSE LET xn == m.h[x] IN
         IF i < 0 THEN Fail(m, "out_of_bounds")
         ELSE [m EXCEPT !.h[x].key = [j \in KeyIdx(t) |->
                                        IF j >= i /\ j < xn.n - 1 THEN xn.key[j + 1]
                                        ELSE xn.key[j]],
                        !.h[x].n = xn.n - 1]

\* erase_child that moves nothing
erase_child_keep(m, x, i) == m

erase_child(m, x, i) ==
    IF m.fault # "none" THEN m
    ELSE LET xn == m.h[x] IN
         IF i < 0 \/ (i <= xn.n /\ xn.n + 1 \notin ChildIdx(t)) THEN Fail(m, "out_of_bounds")
         ELSE [m EXCEPT !.h[x].c = [j \in ChildIdx(t) |->
                                      IF j >= i /\ j <= xn.n THEN xn.c[j + 1]
                                      ELSE xn.c[j]]]

\* erase_leaf erasing the slot after the one it is given
erase_leaf_next_slot(m, x, i) == erase_key(Case(m, "1"), x, i + 1)

erase_leaf(m, x, i) == erase_key(Case(m, "1"), x, i)

merge(m, x, i) ==
    IF m.fault # "none" THEN m
    ELSE IF i \notin ChildIdx(t) \/ i + 1 \notin ChildIdx(t) THEN Fail(m, "out_of_bounds")
    ELSE
    LET y == m.h[x].c[i]
        z == m.h[x].c[i + 1]
    IN
    IF Bad(m.h, y) # "none" THEN Fail(m, Bad(m.h, y))
    ELSE IF Bad(m.h, z) # "none" THEN Fail(m, Bad(m.h, z))
    ELSE IF m.h[z].n > t - 1 THEN Fail(m, "out_of_bounds")
    ELSE
    LET zn == m.h[z]
        yn == m.h[y]
        yk == [j \in KeyIdx(t) |->
                 IF j = t - 1 THEN m.h[x].key[i]
                 ELSE IF j >= t /\ j < t + zn.n THEN zn.key[j - t]
                 ELSE yn.key[j]]
        yc == [j \in ChildIdx(t) |->
                 IF ~yn.leaf /\ j >= t /\ j <= t + zn.n THEN zn.c[j - t]
                 ELSE yn.c[j]]
        m1 == [m EXCEPT !.h[y].key = yk, !.h[y].c = yc]
        m2 == erase_child(erase_key(m1, x, i), x, i + 1)
    IN IF m2.fault # "none" THEN m2
       ELSE freenode([m2 EXCEPT !.h[y].n = m2.h[y].n + m2.h[z].n + 1], z)

unshift_key(m, x, k) ==
    LET xn == m.h[x] IN
    IF xn.n \notin KeyIdx(t) THEN Fail(m, "out_of_bounds")
    ELSE [m EXCEPT !.h[x].key = [j \in KeyIdx(t) |->
                                   IF j = 0 THEN k
                                   ELSE IF j <= xn.n THEN xn.key[j - 1]
                                   ELSE xn.key[j]],
                   !.h[x].n = xn.n + 1]

\* unshift_child without the loop that moves the children up
unshift_child_over(m, u, v) ==
    IF m.fault # "none" THEN m ELSE [m EXCEPT !.h[u].c[0] = v]

unshift_child(m, u, v) ==
    LET un == m.h[u] IN
    IF m.fault # "none" THEN m
    ELSE IF un.n \notin ChildIdx(t) THEN Fail(m, "out_of_bounds")
    ELSE [m EXCEPT !.h[u].c = [j \in ChildIdx(t) |->
                                 IF j = 0 THEN v
                                 ELSE IF j <= un.n THEN un.c[j - 1]
                                 ELSE un.c[j]]]

push_key(m, x, k) ==
    LET xn == m.h[x] IN
    IF xn.n \notin KeyIdx(t) THEN Fail(m, "out_of_bounds")
    ELSE [m EXCEPT !.h[x].key[xn.n] = k, !.h[x].n = xn.n + 1]

push_child(m, u, v) ==
    IF m.fault # "none" THEN m
    ELSE IF m.h[u].n \notin ChildIdx(t) THEN Fail(m, "out_of_bounds")
    ELSE [m EXCEPT !.h[u].c[m.h[u].n] = v]

shift_key(m, x) ==
    LET xn == m.h[x] IN
    IF m.fault # "none" THEN m
    ELSE [m EXCEPT !.h[x].key = [j \in KeyIdx(t) |->
                                   IF j < xn.n - 1 THEN xn.key[j + 1] ELSE xn.key[j]],
                   !.h[x].n = xn.n - 1]

shift_child(m, x) ==
    LET xn == m.h[x] IN
    IF m.fault # "none" THEN m
    ELSE [m EXCEPT !.h[x].c = [j \in ChildIdx(t) |->
                                 IF j < xn.n - 1 THEN xn.c[j + 1] ELSE xn.c[j]]]

borrow_prev(m, x, i) ==
    LET c  == m.h[x].c[i]
        s  == m.h[x].c[i - 1]
        m1 == unshift_key(Case(m, "3a-left"), c, m.h[x].key[i - 1])
        m2 == IF m1.fault = "none" /\ ~m1.h[c].leaf
              THEN unshift_child(m1, c, m1.h[s].c[m1.h[s].n])
              ELSE m1
    IN IF m2.fault # "none" THEN m2
       ELSE IF m2.h[s].n - 1 \notin KeyIdx(t) THEN Fail(m2, "out_of_bounds")
       ELSE [m2 EXCEPT !.h[x].key[i - 1] = m2.h[s].key[m2.h[s].n - 1],
                       !.h[s].n = m2.h[s].n - 1]

borrow_next(m, x, i) ==
    LET c  == m.h[x].c[i]
        s  == m.h[x].c[i + 1]
        m1 == push_key(Case(m, "3a-right"), c, m.h[x].key[i])
        m2 == IF m1.fault = "none" /\ ~m1.h[c].leaf
              THEN push_child(m1, c, m1.h[s].c[0])
              ELSE m1
    IN IF m2.fault # "none" THEN m2
       ELSE LET m3 == shift_key([m2 EXCEPT !.h[x].key[i] = m2.h[s].key[0]], s)
            IN IF ~m3.h[s].leaf THEN shift_child(m3, s) ELSE m3

fill_child(m, x, i) ==
    LET xn == m.h[x] IN
    IF i > 0 /\ Bad(m.h, xn.c[i - 1]) # "none" THEN Fail(m, Bad(m.h, xn.c[i - 1]))
    ELSE IF i > 0 /\ m.h[xn.c[i - 1]].n >= t THEN borrow_prev(m, x, i)
    ELSE IF i < xn.n /\ Bad(m.h, xn.c[i + 1]) # "none" THEN Fail(m, Bad(m.h, xn.c[i + 1]))
    ELSE IF i < xn.n /\ m.h[xn.c[i + 1]].n >= t THEN borrow_next(m, x, i)
    ELSE IF i = xn.n THEN merge(Case(m, "3b"), x, i - 1)
    ELSE merge(Case(m, "3b"), x, i)

RECURSIVE erase(_, _, _, _)
RECURSIVE erase_nonleaf(_, _, _, _)

erase(m0, x, kr, g) ==
    IF m0.fault # "none" THEN m0
    ELSE IF Bad(m0.h, x) # "none" THEN Fail(m0, Bad(m0.h, x))
    ELSE
    LET k  == Deref(m0.h, kr, g)
        m  == [m0 EXCEPT !.dangled = @ \/ Dangles(m0.h, kr),
                         !.strayed = @ \/ (k # kr.val),
                         !.thin    = @ \/ (x # m0.root /\ m0.h[x].n < t)]
        xn == m.h[x]
        i  == Scan(xn, k)
    IN
    IF i < xn.n /\ eq(xn.key[i][1], k) THEN
        IF xn.leaf THEN erase_leaf(m, x, i) ELSE erase_nonleaf(m, x, i, g)
    ELSE IF xn.leaf THEN m
    ELSE
        LET end == (i = xn.n) IN
        IF Bad(m.h, xn.c[i]) # "none" THEN Fail(m, Bad(m.h, xn.c[i]))
        ELSE
        LET m1 == IF m.h[xn.c[i]].n = t - 1 THEN fill_child(m, x, i) ELSE m IN
        IF m1.fault # "none" THEN m1
        ELSE IF end /\ i > m1.h[x].n
             THEN erase(Into(m1, x, i - 1, kr.val), m1.h[x].c[i - 1], kr, g)
        ELSE erase(Into(m1, x, i, kr.val), m1.h[x].c[i], kr, g)

erase_nonleaf(m, x, i, g) ==
    LET y == m.h[x].c[i]
        z == m.h[x].c[i + 1]
    IN
    IF Bad(m.h, y) # "none" THEN Fail(m, Bad(m.h, y))
    ELSE IF m.h[y].n >= t THEN
        LET p == pred(m.h, x, i) IN
        IF p.fault # "none" THEN Fail(m, p.fault)
        ELSE LET m1 == erase(Into(Probe(Case(m, "2a"), p.calls), x, i, p.val[1]), y, Val(p.val[1]), g) IN
             IF m1.fault # "none" THEN m1 ELSE [m1 EXCEPT !.h[x].key[i] = p.val]
    ELSE IF Bad(m.h, z) # "none" THEN Fail(m, Bad(m.h, z))
    ELSE IF m.h[z].n >= t THEN
        LET p == succ(m.h, x, i) IN
        IF p.fault # "none" THEN Fail(m, p.fault)
        ELSE LET m1 == erase(Into(Probe(Case(m, "2b"), p.calls), x, i + 1, p.val[1]), z, Val(p.val[1]), g) IN
             IF m1.fault # "none" THEN m1 ELSE [m1 EXCEPT !.h[x].key[i] = p.val]
    ELSE
        LET k == m.h[x].key[i] IN
        erase(Into(merge(Case(m, "2c"), x, i), x, i, k[1]), y, Val(k[1]), g)

\* void erase(const Key& k): auto p = find(root, k); erase(root, p.first->key[p.second]);
erase_top(m, k, g) ==
    LET p == find(m.h, m.root, k) IN
    IF p.fault # "none" THEN Fail(m, p.fault)
    ELSE IF p.node = NIL THEN Fail(m, "null_deref")
    ELSE erase(m, m.root, Ref(p.node, p.slot, k), g)

\* ---- the program as a state machine ----
Machine == [h |-> heap, root |-> root, fault |-> "none", cases |-> {}, ret |-> NIL,
            dangled |-> FALSE, news |-> NewsPerNode * MaxNodes,
            depth |-> 0, deep |-> 0, strayed |-> FALSE,
            thin |-> FALSE, astray |-> FALSE, full |-> FALSE, skew |-> FALSE]

\* BTree<int, int> tree(tt);
Start(tt, ph) ==
    /\ t = tt
    /\ phase = ph
    /\ erased = 0
    /\ LET m == create([h |-> [x \in 1..MaxNodes |-> FreeNode], root |-> NIL,
                        fault |-> "none", cases |-> {}, ret |-> NIL, dangled |-> FALSE,
                        news |-> NewsPerNode * MaxNodes, depth |-> 0, deep |-> 0,
                        strayed |-> FALSE, thin |-> FALSE, astray |-> FALSE,
                        full |-> FALSE, skew |-> FALSE])
       IN heap = m.h /\ root = m.root /\ fault = m.fault
    /\ entries = <<>>
    /\ last = [op |-> "create", key |-> 0, cases |-> {}, found |-> FALSE]

Init ==
    \/ \E tt \in MinT..MaxT : Start(tt, "any")
    \/ Start(MinT, "fill")
    \/ Start(MainT, "main")

\* Between two public calls the slots key[n..] and c[n+1..] of a node (every
\* c slot of a leaf) are not part of its contents: no call reads them before it
\* has written them, so they are kept as they were at allocation.
Settled(h) ==
    [x \in DOMAIN h |->
        IF ~h[x].live \/ h[x].n \notin 0..(2 * t - 1) THEN h[x]
        ELSE [h[x] EXCEPT
                !.key = [j \in KeyIdx(t) |-> IF j < h[x].n THEN @[j] ELSE <<0, 0>>],
                !.c   = [j \in ChildIdx(t) |->
                           IF ~h[x].leaf /\ j <= h[x].n THEN @[j] ELSE UNDEF]]]

Present == DOMAIN entries

\* the keys stored in the tree, as the traversal prints them
Stored == LET s == dbg_traverse(heap, root) IN {s[j] : j \in 1..Len(s)}

\* void insert(const Key& k, T x) { insert(std::make_pair(k, x)); }
InsertCall(k, v) ==
    /\ fault = "none"
    /\ \E m \in {insert(Machine, <<k, v>>)} :
          heap' = Settled(m.h) /\ root' = m.root /\ fault' = m.fault
    /\ entries' = [j \in Present \cup {k} |-> IF j = k THEN v ELSE entries[j]]
    /\ last' = [op |-> "insert", key |-> k, cases |-> {}, found |-> FALSE]
    /\ UNCHANGED t

\* the keys the caller uses
Keys ==
    IF phase = "any" THEN KeysFor(t)
    ELSE IF phase = "main" THEN {MainInserts[j] : j \in DOMAIN MainInserts}
    ELSE 1..RunKeys

\* What a read of a key through a dangling reference can yield: the key that
\* was there, another key, or a value that is no key (below or above them all).
Reads == (Min(Keys) - 1)..(Max(Keys) + 1)

\* A call of erase(k) that reads through no dangling reference is the same call
\* whatever such a read would yield: one value stands for them all.
ReadsOf(k) ==
    IF erase_top(Machine, k, Min(Reads)).dangled THEN Reads ELSE {Min(Reads)}

\* void erase(const Key& k); g is what a read through a dangling reference yields
EraseCall(k, g) ==
    /\ fault = "none"
    /\ \E m \in {erase_top(Machine, k, g)} :
          /\ heap' = Settled(m.h) /\ root' = m.root /\ fault' = m.fault
          /\ last' = [op |-> "erase", key |-> k, cases |-> m.cases,
                      found |-> find(heap, root, k).node # NIL]
    /\ entries' = [j \in Present \ {k} |-> entries[j]]
    /\ UNCHANGED t

\* a caller inserting a key that is not stored
Insert ==
    \E k \in KeysFor(t) \ Stored :
        /\ phase = "any"
        /\ InsertCall(k, ValueOf(k))
        /\ UNCHANGED <<phase, erased>>

\* a caller erasing a key, stored or not
Erase ==
    \E k \in KeysFor(t) : \E g \in ReadsOf(k) :
        /\ phase = "any"
        /\ EraseCall(k, g)
        /\ erased' = 1
        /\ UNCHANGED phase

\* a caller inserting 1, 2, 3, ... in this order
RunInsert ==
    /\ phase = "fill"
    /\ Cardinality(Present) < RunKeys
    /\ InsertCall(Cardinality(Present) + 1, ValueOf(Cardinality(Present) + 1))
    /\ UNCHANGED <<phase, erased>>

\* the same caller erasing stored keys, once its inserts are over
RunErase ==
    \E k \in Stored : \E g \in ReadsOf(k) :
        /\ \/ phase = "fill" /\ erased' = 1
           \/ phase = "drain" /\ erased < RunErases /\ erased' = erased + 1
        /\ EraseCall(k, g)
        /\ phase' = "drain"

\* main(): t.insert(1, 1); t.insert(3, 2); ...
MainInsert ==
    /\ phase = "main"
    /\ erased = 0
    /\ Cardinality(Present) < Len(MainInserts)
    /\ InsertCall(MainInserts[Cardinality(Present) + 1], Cardinality(Present) + 1)
    /\ UNCHANGED <<phase, erased>>

\* main(): t.erase(6); t.erase(13); ...
MainErase ==
    \E g \in ReadsOf(MainErases[Min({erased + 1, Len(MainErases)})]) :
        /\ phase = "main"
        /\ Cardinality(Present) + erased = Len(MainInserts)
        /\ erased < Len(MainErases)
        /\ EraseCall(MainErases[erased + 1], g)
        /\ erased' = erased + 1
        /\ UNCHANGED phase

Next == Insert \/ Erase \/ RunInsert \/ RunErase \/ MainInsert \/ MainErase

Spec == Init /\ [][Next]_vars

\* the runs that only insert
InsertNext == Insert \/ RunInsert \/ MainInsert

InsertSpec == Init /\ [][InsertNext]_vars

\* ---- observations of a state ----
Traversal == dbg_traverse(heap, root)

Ascending(s) == \A i \in 1..(Len(s) - 1) : s[i] < s[i + 1]

Without(s, k) == SelectSeq(s, LAMBDA e : e # k)

\* the nodes of the subtree of x, through the slots c[0..n] that can be followed
RECURSIVE Nodes(_, _)
Nodes(h, x) ==
    IF Bad(h, x) # "none" THEN {}
    ELSE IF h[x].leaf THEN {x}
    ELSE {x} \cup UNION {Nodes(h, h[x].c[i]) : i \in 0..h[x].n}

\* the keys stored in the subtree of x
SubKeys(h, x) == {h[y].key[j][1] : <<y, j>> \in {p \in Nodes(h, x) \X KeyIdx(t) : p[2] < h[p[1]].n}}

\* the depths (root = 0) at which the subtree of x, itself at depth d, has leaves
RECURSIVE LeafDepths(_, _, _)
LeafDepths(h, x, d) ==
    IF Bad(h, x) # "none" THEN {0 - 1}
    ELSE IF h[x].leaf THEN {d}
    ELSE UNION {LeafDepths(h, h[x].c[i], d + 1) : i \in 0..h[x].n}

Tree == Nodes(heap, root)

Internal == {x \in Tree : ~heap[x].leaf}

\* the child slots in use: <<parent, slot>>
Slots == {p \in Internal \X ChildIdx(t) : p[2] <= heap[p[1]].n}

Absent == [node |-> NIL, slot |-> 0, fault |-> "none"]

\* the node a child slot in use refers to
Child(p) == heap[p[1]].c[p[2]]

\* ---- searching ----
\* a caller's find(x, k) on a node x of the tree, for a key or a value that is none
Find ==
    \E x \in Tree, k \in Reads :
        /\ fault = "none"
        /\ \E p \in {find(heap, x, k)} :
              /\ fault' = p.fault
              /\ last' = [op |-> "find", key |-> k, cases |-> {}, found |-> p.node # NIL]
        /\ UNCHANGED <<t, heap, root, phase, erased, entries>>

\* the runs that insert and search
FindNext == Insert \/ RunInsert \/ MainInsert \/ Find

FindSpec == Init /\ [][FindNext]_vars

\* ---- running out of memory ----
\* the key the caller inserts next
NextKeys ==
    IF phase = "any" THEN KeysFor(t) \ Stored
    ELSE IF phase = "fill" THEN {Cardinality(Present) + 1} \cap (1..RunKeys)
    ELSE IF phase = "main" /\ erased = 0
         THEN {MainInserts[j] : j \in {Cardinality(Present) + 1} \cap DOMAIN MainInserts}
    ELSE {}

\* insert(k, v) throwing std::bad_alloc: the b-th new-expression of the call
\* and none before it fails; the caller's entries are what they were
InsertNoMemory ==
    \E k \in NextKeys, b \in 0..(MaxNews - 1) :
        /\ fault = "none"
        /\ \E m \in {insert([Machine EXCEPT !.news = b], <<k, ValueOf(k)>>)} :
              /\ m.fault = "bad_alloc"
              /\ heap' = Settled(m.h) /\ root' = m.root /\ fault' = m.fault
        /\ last' = [op |-> "insert", key |-> k, cases |-> {}, found |-> FALSE]
        /\ UNCHANGED <<t, phase, erased, entries>>

NoMemoryNext == Insert \/ RunInsert \/ MainInsert \/ InsertNoMemory
NoMemorySpec == Init /\ [][NoMemoryNext]_vars

\* ---- the steps of a call, one at a time ----
\* A private procedure applied where its caller applies it, on a tree built by
\* inserts; the state after it is the tree in the middle of the call, and
\* phase "step" ends the run.  last.node and last.key are the arguments x and i.

\* the <<x, i>> at which merge(x, i) is called: by fill_child (3b) and by
\* erase_nonleaf (2c), when x.c[i] and x.c[i+1] both hold t-1 keys
Merges ==
    {p \in Slots :
        /\ p[2] < heap[p[1]].n
        /\ heap[Child(p)].n = t - 1
        /\ heap[Child(<<p[1], p[2] + 1>>)].n = t - 1}

Merge ==
    \E p \in Merges :
        /\ fault = "none"
        /\ phase # "step"
        /\ \E m \in {merge(Machine, p[1], p[2])} :
              heap' = Settled(m.h) /\ root' = m.root /\ fault' = m.fault
        /\ last' = [op |-> "merge", key |-> p[2], node |-> p[1], cases |-> {},
                    found |-> FALSE]
        /\ phase' = "step"
        /\ UNCHANGED <<t, erased, entries>>

\* the <<x, i>> at which fill_child calls borrow_prev(x, i): x.c[i] holds t-1
\* keys and its left sibling x.c[i-1] at least t
BorrowsPrev ==
    {p \in Slots :
        /\ p[2] > 0
        /\ heap[Child(p)].n = t - 1
        /\ heap[Child(<<p[1], p[2] - 1>>)].n >= t}

BorrowPrev ==
    \E p \in BorrowsPrev :
        /\ fault = "none"
        /\ phase # "step"
        /\ \E m \in {borrow_prev(Machine, p[1], p[2])} :
              heap' = Settled(m.h) /\ root' = m.root /\ fault' = m.fault
        /\ last' = [op |-> "borrow_prev", key |-> p[2], node |-> p[1], cases |-> {},
                    found |-> FALSE]
        /\ phase' = "step"
        /\ UNCHANGED <<t, erased, entries>>

\* the <<x, i>> at which erase calls erase_nonleaf(x, i): key i of an internal
\* node x that is the root or, by the descent rule, holds at least t keys
ErasesNonleaf ==
    {p \in Internal \X KeyIdx(t) :
        /\ p[2] < heap[p[1]].n
        /\ p[1] = root \/ heap[p[1]].n >= t}

EraseNonleaf ==
    \E p \in ErasesNonleaf :
        /\ fault = "none"
        /\ phase # "step"
        /\ \E m \in {erase_nonleaf(Machine, p[1], p[2], Min(Reads))} :
              /\ heap' = Settled(m.h) /\ root' = m.root /\ fault' = m.fault
              /\ last' = [op |-> "erase_nonleaf", key |-> p[2], node |-> p[1],
                          cases |-> m.cases, found |-> TRUE]
        /\ phase' = "step"
        /\ UNCHANGED <<t, erased, entries>>

\* the <<x, i>> at which insert_nonfull calls split_child(x, i): x is not full
\* and its child x.c[i] holds 2t-1 keys
Splits ==
    {p \in Slots : heap[p[1]].n < 2 * t - 1 /\ heap[Child(p)].n = 2 * t - 1}

SplitChild ==
    \E p \in Splits :
        /\ fault = "none"
        /\ phase # "step"
        /\ \E m \in {split_child(Machine, p[1], p[2])} :
              /\ heap' = Settled(m.h) /\ root' = m.root /\ fault' = m.fault
              /\ last' = [op |-> "split_child", key |-> p[2], node |-> p[1],
                          cases |-> {}, found |-> FALSE]
        /\ phase' = "step"
        /\ UNCHANGED <<t, erased, entries>>

\* insert on a full root r, up to its call of insert_nonfull: s = allocnode();
\* root = s; s->leaf = false; s->n = 0; s->c[0] = r; split_child(s, 0);
SplitRoot ==
    /\ fault = "none"
    /\ phase # "step"
    /\ heap[root].n = 2 * t - 1
    /\ \E m1 \in {allocnode(Machine)} :
       \E m \in {split_child([m1 EXCEPT !.root = m1.ret,
                                         !.h[m1.ret].leaf = FALSE,
                                         !.h[m1.ret].n = 0,
                                         !.h[m1.ret].c[0] = root], m1.ret, 0)} :
          /\ heap' = Settled(m.h) /\ root' = m.root /\ fault' = m.fault
          /\ last' = [op |-> "split_root", key |-> 0, node |-> m1.ret,
                      cases |-> {}, found |-> FALSE]
    /\ phase' = "step"
    /\ UNCHANGED <<t, erased, entries>>

StepNext ==
    \/ Insert \/ RunInsert \/ MainInsert
    \/ Merge \/ BorrowPrev \/ EraseNonleaf \/ SplitChild \/ SplitRoot
StepSpec == Init /\ [][StepNext]_vars

\* ---- the height of the tree ----
\* a caller's erase(k) of a stored key on a tree built by inserts; the run ends
EraseBuilt ==
    /\ phase # "step"
    /\ \E k \in Stored : \E g \in ReadsOf(k) :
          /\ EraseCall(k, g)
          /\ erased' = 1
          /\ phase' = "step"

\* a caller's find(root, k) on a tree built by inserts; the run ends
FindBuilt ==
    /\ phase # "step"
    /\ fault = "none"
    /\ \E k \in Reads :
          \E p \in {find(heap, root, k)} :
              /\ fault' = p.fault
              /\ last' = [op |-> "find", key |-> k, cases |-> {}, found |-> p.node # NIL]
    /\ phase' = "step"
    /\ UNCHANGED <<t, heap, root, erased, entries>>

HeightNext == Insert \/ RunInsert \/ MainInsert \/ FindBuilt \/ SplitRoot \/ EraseBuilt
HeightSpec == Init /\ [][HeightNext]_vars

\* ---- inserting a key again ----
\* the entries (key and value) of the subtree of x in the order of dbg_traverse
RECURSIVE InOrder(_, _)
InOrder(h, x) ==
    IF Bad(h, x) # "none" THEN <<UNDEF>>
    ELSE
    LET nd == h[x]
        RECURSIVE walk(_)
        walk(i) ==
            IF i < nd.n
            THEN (IF nd.leaf THEN <<>> ELSE InOrder(h, nd.c[i]))
                 \o <<nd.key[i]>> \o walk(i + 1)
            ELSE (IF nd.leaf THEN <<>> ELSE InOrder(h, nd.c[i]))
    IN walk(0)

\* the number of insert calls made so far with a key that was stored already
Agains == Len(Traversal) - Cardinality(Present)

\* a caller inserting a stored key once more, with a value no entry has
InsertAgain ==
    /\ fault = "none"
    /\ Agains < MaxAgains
    /\ \E k \in Stored :
          /\ \E m \in {insert(Machine, <<k, 0 - (Agains + 1)>>)} :
                heap' = Settled(m.h) /\ root' = m.root /\ fault' = m.fault
          /\ last' = [op |-> "insert_again", key |-> k, cases |-> {}, found |-> TRUE]
    /\ phase' = "step"
    /\ UNCHANGED <<t, erased, entries>>

AgainNext == Insert \/ RunInsert \/ MainInsert \/ InsertAgain
AgainSpec == Init /\ [][AgainNext]_vars

\* ---- properties ----

\* C1: erase(k) of a key k stored in a tree built by inserts alone removes
\* exactly that entry: the call ends without fault and the traversal after it
\* is the traversal before it with k taken out, whichever cases the descent took.
EraseRemovesExactlyK ==
    [][(erased = 0 /\ last'.op = "erase" /\ last'.found)
         => /\ fault' = "none"
            /\ dbg_traverse(heap', root') = Without(Traversal, last'.key)]_vars

\* C2: once erase(k) of a stored key k has returned, find(root, k) reports
\* (nullptr, 0).
EraseThenFindAbsent ==
    (last.op = "erase" /\ last.found)
        => (fault = "none" /\ find(heap, root, last.key) = Absent)

\* C3: after inserts of distinct keys and erases of stored keys, find(root, k)
\* of every key k inserted and not erased since returns a slot that holds k
\* with the value k was inserted with.
FindReturnsEntry ==
    fault = "none" =>
        \A k \in Present :
            LET p == find(heap, root, k)
            IN  p.node # NIL /\ heap[p.node].key[p.slot] = <<k, entries[k]>>

\* C4: erase(k) of a key k that is not stored, the empty tree included, ends
\* without fault and leaves the root and every node as they were.
EraseAbsentIsNoOp ==
    [][(last'.op = "erase" /\ ~last'.found)
         => (fault' = "none" /\ heap' = heap /\ root' = root)]_vars

\* C5: after every call of a run of inserts with distinct keys the traversal
\* from the root visits each inserted key exactly once, in strictly ascending
\* order, and no call faults.
InsertKeepsOrder ==
    /\ fault = "none"
    /\ Ascending(Traversal)
    /\ Len(Traversal) = Cardinality(Present)
    /\ Stored = Present

\* C5 happens: the keys of the ascending run are all in and the tree is three
\* levels high, so leaf insertions, splits of leaves and of internal nodes and
\* two root splits have taken place.
InsertedThreeLevels ==
    /\ phase = "fill"
    /\ Cardinality(Present) = RunKeys
    /\ ~heap[root].leaf
    /\ ~heap[heap[root].c[0]].leaf
    /\ last.op = "insert"

\* C6: after every call that returns, the root holds at most 2t-1 keys and
\* every other node of the tree, that is the node behind every child slot in
\* use, holds at least t-1 and at most 2t-1 keys.  The key count behind a slot
\* that refers to a freed node is indeterminate.
KeyCountsInRange ==
    fault = "none" =>
        /\ heap[root].n <= 2 * t - 1
        /\ \A p \in Slots :
              /\ Bad(heap, Child(p)) = "none"
              /\ heap[Child(p)].n \in (t - 1)..(2 * t - 1)

\* C7: after every call that returns, the slots c[0..n] of every internal node
\* refer to live nodes, and to n+1 different ones.
ChildSlotsValid ==
    fault = "none" =>
        \A p \in Slots :
            /\ Bad(heap, Child(p)) = "none"
            /\ \A q \in Slots : (q[1] = p[1] /\ q[2] # p[2]) => Child(q) # Child(p)

\* C8: the nodes reachable from the root form an ownership tree: no slot in
\* use refers to the root and every other reachable node is referred to by
\* exactly one slot in use (so no node is its own descendant).
OwnershipTree ==
    fault = "none" =>
        /\ \A p \in Slots : Child(p) # root
        /\ \A x \in Tree \ {root} : Cardinality({q \in Slots : Child(q) = x}) = 1

\* C9: after every call that returns, every path from the root down the slots
\* in use ends in a leaf, and all of them at one depth.
LeavesAtOneDepth ==
    fault = "none" =>
        /\ Cardinality(LeafDepths(heap, root, 0)) = 1
        /\ (0 - 1) \notin LeafDepths(heap, root, 0)

\* C10: in every internal node x the keys stored below c[i] are <= key[i]
\* (i < n) and the keys stored below c[i+1] are >= key[i].
SearchTreeOrder ==
    fault = "none" =>
        \A p \in Slots :
            LET x == p[1]
                i == p[2]
            IN  /\ i < heap[x].n =>
                      \A k \in SubKeys(heap, Child(p)) : k <= heap[x].key[i][1]
                /\ i > 0 =>
                      \A k \in SubKeys(heap, Child(p)) : k >= heap[x].key[i - 1][1]

\* C11: after every call that returns the root is never an internal node with
\* zero keys: a merge that empties the root makes the merged node the new root.
RootCollapses ==
    fault = "none" => ~(~heap[root].leaf /\ heap[root].n = 0)

\* the number of node levels on each path from the root to a leaf
Heights == {d + 1 : d \in LeafDepths(heap, root, 0) \ {0 - 1}}

\* C12: after every call that leaves N >= 1 keys the height h of the tree
\* satisfies 2 * t^(h-1) <= N + 1.
HeightBound ==
    (fault = "none" /\ Len(Traversal) >= 1) =>
        \A h \in Heights : 2 * t ^ (h - 1) <= Len(Traversal) + 1

\* the traversals main() is to print: once its inserts are over, and at its end
MainBuilt == <<1, 2, 3, 4, 5, 6, 7, 10, 11, 12, 13, 14, 15, 16, 17, 18, 19, 20, 21, 22,
               24, 25, 26>>
MainFinal == <<1, 3, 5, 10, 11, 12, 14, 15, 17, 18, 19, 20, 21, 22, 24, 25, 26>>

\* C13: in main()'s run (t = 3) no call faults; after each call the traversal
\* is exactly the keys inserted and not erased so far, ascending: MainBuilt once
\* the 23 inserts are over, MainFinal after the six erases; and after each call
\* the key counts, the child slots and the leaf depths are as C6, C7, C9 state.
MainRunTraversals ==
    phase = "main" =>
        /\ fault = "none"
        /\ Ascending(Traversal)
        /\ Stored = Present
        /\ Len(Traversal) = Cardinality(Present)
        /\ (Cardinality(Present) = Len(MainInserts) => Traversal = MainBuilt)
        /\ (erased = Len(MainErases) => Traversal = MainFinal)
        /\ KeyCountsInRange
        /\ ChildSlotsValid
        /\ LeavesAtOneDepth

\* C13 happens: main() has made its last erase call, of key 16
MainRunOver ==
    /\ phase = "main"
    /\ erased = Len(MainErases)
    /\ last = [op |-> "erase", key |-> 16, cases |-> {"1", "2b"}, found |-> TRUE]

\* C14: after every call that returns, the keys key[0..n-1] of every node of
\* the tree are strictly ascending under the comparison predicate.
KeysAscendingInNode ==
    fault = "none" =>
        \A x \in Tree :
            \A j \in 0..(heap[x].n - 2) : cmp(heap[x].key[j][1], heap[x].key[j + 1][1])

\* find(x, k) returns a slot of the subtree of x that holds k when k is stored
\* there, and (nullptr, 0) when it is not
FindOutcome(x, k) ==
    LET p == find(heap, x, k)
    IN  IF k \in SubKeys(heap, x)
        THEN /\ p.fault = "none"
             /\ p.node \in Nodes(heap, x)
             /\ p.slot < heap[p.node].n
             /\ heap[p.node].key[p.slot][1] = k
        ELSE p = Absent

\* at an internal node x that does not hold k, find(x, k) is find(x.c[i], k) for
\* the smallest i with key[i] >= k (i = n when there is none)
FindDescends(x, k) ==
    LET ge == {j \in 0..(heap[x].n - 1) : heap[x].key[j][1] >= k}
        i  == IF ge = {} THEN heap[x].n ELSE Min(ge)
    IN  (~heap[x].leaf /\ \A j \in 0..(heap[x].n - 1) : heap[x].key[j][1] # k)
            => find(heap, x, k) = find(heap, heap[x].c[i], k)

\* C15: a call of find changes neither the root nor any node, and on a tree
\* that is ordered find(x, k) returns a slot holding k exactly when k is stored
\* below x, (nullptr, 0) otherwise, descending at each node into the child before
\* the first key >= k.
FindReportsStored ==
    /\ [](\A x \in Tree, k \in Reads : FindOutcome(x, k) /\ FindDescends(x, k))
    /\ [][last'.op = "find"
            => /\ heap' = heap /\ root' = root /\ fault' = "none"
               /\ last'.found => last'.key \in SubKeys(heap, root)]_vars

\* C15 happens: on the three-level tree of the ascending run find has found a
\* key of the last leaf
FoundInThirdLevel ==
    /\ phase = "fill"
    /\ Cardinality(Present) = RunKeys
    /\ ~heap[heap[root].c[0]].leaf
    /\ last = [op |-> "find", key |-> RunKeys, cases |-> {}, found |-> TRUE]

\* C16: when an allocation fails during insert, in the root split or in a
\* split_child on the way down, the tree reachable from the root holds exactly
\* the entries it held before the call, and non-root nodes hold t-1..2t-1 keys,
\* internal nodes have n+1 children, the leaves are at one depth and the keys
\* are in search-tree order.
AllocFailureKeepsTree ==
    fault = "bad_alloc" =>
        /\ Ascending(Traversal)
        /\ Stored = Present
        /\ Len(Traversal) = Cardinality(Present)
        /\ \A k \in Present :
              \E p \in {find(heap, root, k)} :
                  p.node # NIL /\ heap[p.node].key[p.slot] = <<k, entries[k]>>
        /\ \A p \in Slots :
              /\ Bad(heap, Child(p)) = "none"
              /\ heap[Child(p)].n \in (t - 1)..(2 * t - 1)
              /\ \A q \in Slots : (q[1] = p[1] /\ q[2] # p[2]) => Child(q) # Child(p)
              /\ p[2] < heap[p[1]].n =>
                    \A k \in SubKeys(heap, Child(p)) : k <= heap[p[1]].key[p[2]][1]
              /\ p[2] > 0 =>
                    \A k \in SubKeys(heap, Child(p)) : k >= heap[p[1]].key[p[2] - 1][1]
        /\ \A x \in Tree :
              \A j \in 0..(heap[x].n - 2) : cmp(heap[x].key[j][1], heap[x].key[j + 1][1])
        /\ Cardinality(LeafDepths(heap, root, 0)) = 1
        /\ (0 - 1) \notin LeafDepths(heap, root, 0)

\* C16 happens: for a full root its new parent s was allocated and made the
\* root, and the allocation in split_child(s, 0) failed
FailedUnderEmptyRoot ==
    /\ fault = "bad_alloc"
    /\ ~heap[root].leaf
    /\ heap[root].n = 0

\* the number of child links on the longest path from x down to a leaf
Height(h, x) == Max(LeafDepths(h, x, 0))

\* C17: every find, insert and erase call on a tree reached by earlier inserts
\* and erases returns (no call has ended in a fault), and a call nests no more
\* calls on child nodes than the tree is high (for an insert, the tree it
\* leaves).
CallsReturnWithinHeight ==
    /\ fault = "none"
    /\ \A k \in Reads : find_depth(heap, root, k) <= Height(heap, root)
    /\ \A k \in NextKeys :
          \E m \in {insert(Machine, <<k, ValueOf(k)>>)} :
              m.fault = "none" => m.deep <= Height(m.h, m.root)
    /\ \A k \in Stored : \A g \in ReadsOf(k) :
          \E m \in {erase_top(Machine, k, g)} :
              m.fault = "none" => m.deep <= Height(heap, root)

\* C18: the tree BTree(t) constructs, as long as nothing has been inserted, is
\* a root that is a leaf with zero keys and no other node; find of any key on it
\* reports (nullptr, 0) and the traversal visits nothing.
ConstructedEmpty ==
    entries = <<>> =>
        /\ fault = "none"
        /\ heap[root].live /\ heap[root].leaf /\ heap[root].n = 0
        /\ Tree = {root}
        /\ {x \in DOMAIN heap : heap[x].live} = {root}
        /\ \A k \in Reads : find(heap, root, k) = Absent
        /\ Traversal = <<>>
        /\ last.op = "find" => ~last.found

\* C18 happens: a tree of the largest degree was constructed and find was
\* called on it before any insert
SearchedWhenConstructed ==
    /\ entries = <<>>
    /\ t = MaxT
    /\ phase = "any"
    /\ last = [op |-> "find", key |-> 1, cases |-> {}, found |-> FALSE]

\* C19: during erase(k) of a stored key k every call of erase(x, k) on the way
\* down reads, through its key parameter, the key k the caller asked for: no
\* borrow_prev and no merge on the way changes what the reference, taken to the
\* slot find returned, yields.
KeyReferenceKeepsKey ==
    [][(last'.op = "erase" /\ last'.found)
         => \A g \in ReadsOf(last'.key) : ~erase_top(Machine, last'.key, g).strayed]_vars

\* the child slots <<x, i>> at which borrow_next(x, i) applies: c = x.c[i]
\* holds t-1 keys and its right sibling s = x.c[i+1] holds at least t
BorrowsNext ==
    {p \in Slots :
        /\ p[2] < heap[p[1]].n
        /\ Bad(heap, Child(p)) = "none"
        /\ Bad(heap, Child(<<p[1], p[2] + 1>>)) = "none"
        /\ heap[Child(p)].n = t - 1
        /\ heap[Child(<<p[1], p[2] + 1>>)].n >= t}

\* C20: borrow_next(x, i), with c = x.c[i] holding t-1 keys and s = x.c[i+1]
\* holding m >= t keys, leaves c with its old keys followed by the old x.key[i],
\* x.key[i] the old s.key[0] and s with its old keys 1..m-1; when c and s are
\* internal, c's last child is the old s.c[0] and the m children of s are the
\* old s.c[1..m], in order.
BorrowNextMovesOne ==
    fault = "none" =>
        \A p \in BorrowsNext :
            \E x \in {p[1]}, i \in {p[2]} :
            \E c \in {heap[x].c[i]}, s \in {heap[x].c[i + 1]} :
            \E m \in {borrow_next(Machine, x, i)} :
                /\ m.fault = "none"
                /\ m.h[c].n = t
                /\ \A j \in 0..(t - 2) : m.h[c].key[j] = heap[c].key[j]
                /\ m.h[c].key[t - 1] = heap[x].key[i]
                /\ m.h[x].key[i] = heap[s].key[0]
                /\ m.h[s].n = heap[s].n - 1
                /\ \A j \in 0..(heap[s].n - 2) : m.h[s].key[j] = heap[s].key[j + 1]
                /\ ~heap[c].leaf =>
                      /\ m.h[c].c[t] = heap[s].c[0]
                      /\ \A j \in 0..(heap[s].n - 1) : m.h[s].c[j] = heap[s].c[j + 1]

\* C21: in every insert and erase each access key[j] has j in 0..2t-2 and each
\* access c[j] has j in 0..2t-1, of a live node; so fill_child(x, i) is reached
\* with x.n >= 1 and merge(x, i) with 0 <= i < x.n only, also in erases that
\* follow the merge of the root's only two children.  (A call that breaks this
\* ends in the fault that names the access.)
IndicesInRange ==
    fault \notin {"out_of_bounds", "wild_pointer", "use_after_free"}

\* C22: in erase(k) of a stored key every call erase(x, k) on a node x other
\* than the root is entered with x.n >= t (a child of t-1 keys has been filled
\* by a borrow or a merge before), and the child entered is the one whose key
\* range contains k.
DescentEntersFilledChild ==
    [][(last'.op = "erase" /\ last'.found)
         => \A g \in ReadsOf(last'.key) :
               \E m \in {erase_top(Machine, last'.key, g)} :
                   m.fault = "none" => (~m.thin /\ ~m.astray)]_vars

\* the slots in use of the nodes allocated in heap h that refer to node z
Referrers(h, z) ==
    {p \in {x \in DOMAIN h : h[x].live /\ ~h[x].leaf} \X ChildIdx(t) :
        p[2] <= h[p[1]].n /\ h[p[1]].c[p[2]] = z}

\* C23: merge(x, i), with y = x.c[i] and z = x.c[i+1] both of t-1 keys, leaves y
\* with 2t-1 keys: its old keys, the old x.key[i], z's old keys, and if internal
\* with y's old children followed by z's; x without key i and child i+1, its
\* other keys and children in order; z freed and in no slot in use.
MergeJoinsSiblings ==
    [][last'.op = "merge" =>
          \E x \in {last'.node}, i \in {last'.key} :
          \E y \in {heap[x].c[i]}, z \in {heap[x].c[i + 1]} :
              /\ fault' = "none"
              /\ heap'[y].n = 2 * t - 1
              /\ \A j \in 0..(t - 2) : heap'[y].key[j] = heap[y].key[j]
              /\ heap'[y].key[t - 1] = heap[x].key[i]
              /\ \A j \in t..(2 * t - 2) : heap'[y].key[j] = heap[z].key[j - t]
              /\ heap'[y].leaf = heap[y].leaf
              /\ ~heap[y].leaf =>
                    /\ \A j \in 0..(t - 1) : heap'[y].c[j] = heap[y].c[j]
                    /\ \A j \in t..(2 * t - 1) : heap'[y].c[j] = heap[z].c[j - t]
              /\ heap'[x].n = heap[x].n - 1
              /\ \A j \in 0..(heap[x].n - 2) :
                    heap'[x].key[j] = heap[x].key[IF j < i THEN j ELSE j + 1]
              /\ \A j \in 0..(heap[x].n - 1) :
                    heap'[x].c[j] = heap[x].c[IF j <= i THEN j ELSE j + 1]
              /\ ~heap'[z].live
              /\ Referrers(heap', z) = {}
              /\ \A w \in DOMAIN heap \ {x, y, z} : heap'[w] = heap[w]]_vars

\* C23 happens: two internal nodes of t-1 = 2 keys each were merged, their
\* 2t = 6 children included
MergedInternalNodes ==
    /\ last.op = "merge"
    /\ fault = "none"
    /\ t = MainT
    /\ ~heap[heap[last.node].c[last.key]].leaf
    /\ heap[heap[last.node].c[last.key]].n = 2 * t - 1

\* C24: borrow_prev(x, i), with c = x.c[i] of t-1 keys and s = x.c[i-1] of
\* m >= t keys, leaves c with the old x.key[i-1] followed by its old keys,
\* x.key[i-1] the old s.key[m-1], s with its old keys 0..m-2, and, when internal,
\* c with the old s.c[m] followed by its old children and s with its children
\* 0..m-1.
BorrowPrevMovesOne ==
    [][last'.op = "borrow_prev" =>
          \E x \in {last'.node}, i \in {last'.key} :
          \E c \in {heap[x].c[i]}, s \in {heap[x].c[i - 1]} :
              /\ fault' = "none"
              /\ heap'[c].n = t
              /\ heap'[c].key[0] = heap[x].key[i - 1]
              /\ \A j \in 1..(t - 1) : heap'[c].key[j] = heap[c].key[j - 1]
              /\ heap'[x].key[i - 1] = heap[s].key[heap[s].n - 1]
              /\ heap'[s].n = heap[s].n - 1
              /\ \A j \in 0..(heap[s].n - 2) : heap'[s].key[j] = heap[s].key[j]
              /\ ~heap[c].leaf =>
                    /\ heap'[c].c[0] = heap[s].c[heap[s].n]
                    /\ \A j \in 1..t : heap'[c].c[j] = heap[c].c[j - 1]
                    /\ \A j \in 0..(heap[s].n - 1) : heap'[s].c[j] = heap[s].c[j]
              /\ heap'[x].n = heap[x].n /\ heap'[x].c = heap[x].c
              /\ \A j \in 0..(heap[x].n - 1) : j # i - 1 => heap'[x].key[j] = heap[x].key[j]
              /\ \A w \in DOMAIN heap \ {x, c, s} : heap'[w] = heap[w]]_vars

\* C24 happens: an internal node of t-1 keys took a key and a child from its
\* left sibling
BorrowedFromLeftInternal ==
    /\ last.op = "borrow_prev"
    /\ fault = "none"
    /\ ~heap[heap[last.node].c[last.key]].leaf
    /\ heap[heap[last.node].c[last.key]].n = t

\* the entries (key and value) stored in the subtree of x
SubEntries(h, x) ==
    {h[p[1]].key[p[2]] : p \in {q \in Nodes(h, x) \X KeyIdx(t) : q[2] < h[q[1]].n}}

\* C25: erase_nonleaf(x, i), for the key k = x.key[i] of an internal node with
\* y = x.c[i] and z = x.c[i+1]: if y has at least t keys, x.key[i] becomes the
\* largest entry below y and that entry leaves y's subtree, whatever z holds
\* (2a); else if z has at least t keys, x.key[i] becomes the smallest entry below
\* z and that entry leaves z's subtree (2b); only if both have t-1 keys are y, k
\* and z merged and k erased from the merged node (2c).  x keeps every key other
\* than k.
EraseNonleafByPriority ==
    [][last'.op = "erase_nonleaf" =>
          \E x \in {last'.node}, i \in {last'.key} :
          \E y \in {heap[x].c[i]}, z \in {heap[x].c[i + 1]} :
          \E below \in {SubKeys(heap, y)}, above \in {SubKeys(heap, z)} :
              /\ fault' = "none"
              /\ heap[y].n >= t =>
                    /\ heap'[x].key[i] = <<Max(below), entries[Max(below)]>>
                    /\ SubEntries(heap', y) = SubEntries(heap, y) \ {heap'[x].key[i]}
                    /\ SubEntries(heap', z) = SubEntries(heap, z)
                    /\ heap'[z] = heap[z]
                    /\ heap'[x].n = heap[x].n /\ heap'[x].c = heap[x].c
                    /\ \A j \in 0..(heap[x].n - 1) :
                          j # i => heap'[x].key[j] = heap[x].key[j]
              /\ (heap[y].n < t /\ heap[z].n >= t) =>
                    /\ heap'[x].key[i] = <<Min(above), entries[Min(above)]>>
                    /\ SubEntries(heap', z) = SubEntries(heap, z) \ {heap'[x].key[i]}
                    /\ SubEntries(heap', y) = SubEntries(heap, y)
                    /\ heap'[y] = heap[y]
                    /\ heap'[x].n = heap[x].n /\ heap'[x].c = heap[x].c
                    /\ \A j \in 0..(heap[x].n - 1) :
                          j # i => heap'[x].key[j] = heap[x].key[j]
              /\ (heap[y].n < t /\ heap[z].n < t) =>
                    /\ "2c" \in last'.cases
                    /\ ~heap'[z].live
                    /\ heap'[x].n = heap[x].n - 1
                    /\ \A j \in 0..(heap[x].n - 2) :
                          heap'[x].key[j] = heap[x].key[IF j < i THEN j ELSE j + 1]
                    /\ \A j \in 0..(heap[x].n - 1) :
                          heap'[x].c[j] = heap[x].c[IF j <= i THEN j ELSE j + 1]
                    /\ SubEntries(heap', y) = SubEntries(heap, y) \cup SubEntries(heap, z)
              /\ SubEntries(heap', x) = SubEntries(heap, x) \ {heap[x].key[i]}]_vars

\* C25 happens: both children of the erased key held at least t keys, and the
\* key was replaced from the left one (2a), the right one untouched
ReplacedFromLeftOfTwo ==
    /\ last.op = "erase_nonleaf"
    /\ fault = "none"
    /\ "2a" \in last.cases
    /\ heap[heap[last.node].c[last.key + 1]].n >= t

\* C26: split_child(x, i) on a non-full internal node x whose child y = x.c[i]
\* holds 2t-1 keys (for a full root, x is its new parent s with no key and y
\* the old root): x gains one key and one child, x.key[i] is the old
\* y.key[t-1], y keeps its first t-1 keys (and first t children), the new node
\* z = x.c[i+1] holds y's old last t-1 keys (and last t children) with
\* z.leaf = y.leaf, and x's other keys and children stay in order, those from
\* position i on one place to the right.
SplitChildHalves ==
    [][last'.op \in {"split_child", "split_root"} =>
          \E x \in {last'.node}, i \in {last'.key} :
          \E y \in {IF last'.op = "split_root" THEN root ELSE heap[x].c[i]},
             z \in {heap'[x].c[i + 1]} :
              /\ fault' = "none"
              /\ last'.op = "split_root" => (root' = x /\ ~heap[x].live /\ heap[x].n = 0)
              /\ ~heap[z].live /\ heap'[z].live
              /\ heap'[x].n = heap[x].n + 1
              /\ heap'[x].key[i] = heap[y].key[t - 1]
              /\ \A j \in 0..heap[x].n :
                    j # i => heap'[x].key[j] = heap[x].key[IF j < i THEN j ELSE j - 1]
              /\ heap'[x].c[i] = y
              /\ \A j \in 0..(heap[x].n + 1) :
                    j \notin {i, i + 1} =>
                        heap'[x].c[j] = heap[x].c[IF j < i THEN j ELSE j - 1]
              /\ heap'[y].n = t - 1 /\ heap'[z].n = t - 1
              /\ heap'[y].leaf = heap[y].leaf /\ heap'[z].leaf = heap[y].leaf
              /\ \A j \in 0..(t - 2) :
                    /\ heap'[y].key[j] = heap[y].key[j]
                    /\ heap'[z].key[j] = heap[y].key[j + t]
              /\ ~heap[y].leaf =>
                    \A j \in 0..(t - 1) :
                        /\ heap'[y].c[j] = heap[y].c[j]
                        /\ heap'[z].c[j] = heap[y].c[j + t]
              /\ \A w \in DOMAIN heap \ {x, y, z} : heap'[w] = heap[w]]_vars

\* C26 happens: a full internal root was split under its new parent, t of its
\* children going to the new node
SplitInternalRoot ==
    /\ last.op = "split_root"
    /\ fault = "none"
    /\ heap[root].n = 1
    /\ ~heap[heap[root].c[1]].leaf
    /\ heap[heap[root].c[1]].n = t - 1

\* C27: every call insert_nonfull(x, k) is entered with x.n < 2t-1 (insert
\* splits a full root first, insert_nonfull a full child before it recurses),
\* and after split_child(x, i) the recursion enters x.c[i+1] exactly when the
\* promoted key x.key[i] is less than k, x.c[i] otherwise.
InsertEntersNonfull ==
    [][last'.op = "insert" =>
          \E m \in {insert(Machine, <<last'.key, ValueOf(last'.key)>>)} :
              ~m.full /\ ~m.skew]_vars

\* C27 happens: the last insert of the ascending run found the last leaf full,
\* split it and went on into the new right half
EnteredRightHalf ==
    /\ phase = "fill"
    /\ fault = "none"
    /\ last.op = "insert"
    /\ last.key = RunKeys
    /\ ~heap[root].leaf
    /\ rightmost(heap, root).val[1] = RunKeys
    /\ \E p \in Slots :
          /\ p[2] = heap[p[1]].n
          /\ p[2] >= 2
          /\ heap[Child(p)].leaf
          /\ heap[Child(p)].n = t
          /\ heap[heap[p[1]].c[p[2] - 1]].n = t - 1

\* C28: an insert raises the height by exactly one if the root holds 2t-1 keys
\* when the call starts and leaves it as it is otherwise; right after the split
\* of a full root the new root holds one key and two children; erase and find
\* never raise the height.
HeightGrowsByRootSplit ==
    [][/\ last'.op = "insert" =>
             /\ fault' = "none"
             /\ Height(heap', root') =
                   Height(heap, root) + (IF heap[root].n = 2 * t - 1 THEN 1 ELSE 0)
       /\ last'.op = "split_root" =>
             /\ fault' = "none"
             /\ ~heap[root'].live
             /\ heap'[root'].n = 1 /\ ~heap'[root'].leaf
             /\ heap'[root'].c[0] = root
             /\ Bad(heap', heap'[root'].c[1]) = "none"
             /\ heap'[root'].c[1] # root
             /\ Height(heap', root') = Height(heap, root) + 1
       /\ (last'.op = "erase" /\ fault' = "none") =>
             Height(heap', root') <= Height(heap, root)
       /\ last'.op = "find" => Height(heap', root') = Height(heap, root)]_vars

\* C28 happens: the insert that found the internal root of the two-level tree
\* of the ascending run full has made the tree three levels high
GrewToThreeLevels ==
    /\ phase = "fill"
    /\ last.op = "insert"
    /\ fault = "none"
    /\ Height(heap, root) = 2
    /\ heap[root].n = 1
    /\ last.key = RunKeys - 1

\* the nodes allocated and not yet freed
Allocated == {x \in DOMAIN heap : heap[x].live}

\* C29: after every insert or erase call that returns, the nodes allocated and
\* not yet freed are exactly the nodes reachable from the root, no slot in use
\* refers to a freed node, and no call reads or writes a freed node.
AllocatedIsReachable ==
    /\ fault # "use_after_free"
    /\ fault = "none" =>
          /\ Allocated = Tree
          /\ \A p \in Slots : Bad(heap, Child(p)) # "use_after_free"

\* C30: every insert(k, v) call that returns, also of a key k stored already,
\* leaves the entries of the tree in their order with one entry of key k added:
\* every entry stored before is still there with its value, and when k was
\* stored the new entry is another one, right before or after an entry of key k.
InsertAddsOneEntry ==
    [][last'.op \in {"insert", "insert_again"} =>
          /\ fault' = "none"
          /\ \E old \in {InOrder(heap, root)} : \E new \in {InOrder(heap', root')} :
                /\ Len(new) = Len(old) + 1
                /\ \E j \in 1..Len(new) :
                      /\ new[j][1] = last'.key
                      /\ \A i \in 1..Len(old) : old[i] # new[j]
                      /\ \A i \in 1..Len(old) : old[i] = new[IF i < j THEN i ELSE i + 1]
                      /\ last'.op = "insert_again" =>
                            \/ j > 1 /\ new[j - 1][1] = last'.key
                            \/ j < Len(new) /\ new[j + 1][1] = last'.key]_vars

\* a key of the root inserted a second and a third time: the tree then holds
\* three entries of that key, with three values
InsertedThrice ==
    /\ last.op = "insert_again" /\ fault = "none"
    /\ Agains = 2
    /\ ~heap[root].leaf
    /\ \E j \in 0..(heap[root].n - 1) : heap[root].key[j][1] = last.key
    /\ Cardinality({e \in SubEntries(heap, root) : e[1] = last.key}) = 3

====
